---- MODULE Spec2Model ----
(***************************************************************************)
(* BeeFileStore: the browser-local file vault.                             *)
(*                                                                         *)
(* The model covers the persistence layer of services/storageService.ts    *)
(* (the IndexedDB blob store and the localStorage metadata document) and   *)
(* the handlers of App.tsx that drive it: handleUpload, handleDelete,      *)
(* performLogin and handleLogout.  Asynchronous handlers are split at      *)
(* their await points.  A blob request takes effect inside its IndexedDB   *)
(* transaction and the awaiting handler resumes from the request's success *)
(* callback, before the transaction commits, so the effect of a request    *)
(* and the code that follows the await form one step; requests in flight   *)
(* may complete in any order.                                              *)
(*                                                                         *)
(* Spec is the application as a whole.  The other specifications look at   *)
(* one part each: SpecTwoUploads at two overlapping uploads, SpecClassify  *)
(* at detectCategory, SpecView at filteredFiles, SpecUsage at storageUsage *)
(* and formatFileSize, SpecBlobStore at the blob store, SpecAuth at the    *)
(* sign-up and log-in handlers, SpecInsight at getFileInsight, SpecTyped   *)
(* at uploads of files of many MIME types, SpecFormat at formatFileSize    *)
(* over file sizes and usage totals, SpecSequential at uploads and removes *)
(* called one at a time; SpecTimersElapse at one session with the          *)
(* fairness of the status reset timer; SpecTwoRemoves at removes that      *)
(* overlap.                                                                *)
(***************************************************************************)
EXTENDS Integers, Sequences, FiniteSets, TLC

\* ------------------------------------------------------------------------
\* Bounds of the model
\* ------------------------------------------------------------------------
MaxBatch == 2      \* longest FileList handed to handleUpload
MaxFiles == 2      \* files accepted by handleUpload in one behaviour
MaxTimers == 2     \* upload calls in flight or awaiting their 3 s reset
MaxUploads == 2    \* handleUpload calls in flight at once
MaxDeletes == 1    \* handleDelete calls in flight at once
NumRand == 3       \* values Math.random() is drawn from
MaxLogins == 2     \* performLogin and handleLogout timeouts pending at once
MaxRemoves == 2    \* handleDelete calls in flight at once in SpecTwoRemoves

\* ------------------------------------------------------------------------
\* Program constants
\* ------------------------------------------------------------------------
MAX_FILE_SIZE == 300 * 1024 * 1024

IDLE == "IDLE"
UPLOADING == "UPLOADING"
SUCCESS == "SUCCESS"
ERROR == "ERROR"
StorageStatus == {IDLE, UPLOADING, SUCCESS, ERROR}

NoUser == "null"
Users == {"u1", "u2"}

\* ------------------------------------------------------------------------
\* Inputs
\* ------------------------------------------------------------------------
\* Math.random().toString(36) for a few values of Math.random():
\* 0.5 renders as "0.i" and 0.25 as "0.9".
RandStr == <<"0.4fzyo82mvyr", "0.i", "0.9", "0.tk1c9x3ab7", "0.8q2m5d0yzh1">>
RandPool == {RandStr[n] : n \in 1..NumRand}

\* The File objects the file picker supplies: a small image (the file an
\* earlier visit may have stored), a file of exactly the size limit whose
\* type the browser left empty, and a file one byte over the limit.
StoredFile == [name |-> "Bee.png", type |-> "image/png", size |-> 1024,
               lastModified |-> 20, content |-> "png-bytes"]

AtLimitFile == [name |-> "notes", type |-> "", size |-> MAX_FILE_SIZE,
                lastModified |-> 10, content |-> "raw-bytes"]

OversizedFile == [name |-> "movie.mp4", type |-> "video/mp4",
                  size |-> MAX_FILE_SIZE + 1,
                  lastModified |-> 30, content |-> "mp4-bytes"]

FilePool == {AtLimitFile, OversizedFile}

\* The file lists handed to handleUpload: every list of up to MaxBatch files
\* of FilePool, and the two accepted files together in either order.
FileLists ==
  UNION {[1..n -> FilePool] : n \in 0..MaxBatch}
    \cup {<<StoredFile, AtLimitFile>>, <<AtLimitFile, StoredFile>>}

\* ------------------------------------------------------------------------
\* Pure helpers
\* ------------------------------------------------------------------------
\* String.prototype.startsWith / includes / substring(from)
startsWith(s, p) == Len(s) >= Len(p) /\ SubSeq(s, 1, Len(p)) = p

includes(s, p) == \E k \in 1..(Len(s) - Len(p) + 1) : SubSeq(s, k, k + Len(p) - 1) = p

substring(s, from) == IF from >= Len(s) THEN "" ELSE SubSeq(s, from + 1, Len(s))

\* Mutant of detectCategory: the document substrings are looked for
\* before the image/ and video/ prefixes.
detectCategoryDocumentsFirst(mimeType) ==
  IF \/ includes(mimeType, "pdf") \/ includes(mimeType, "text")
     \/ includes(mimeType, "word") \/ includes(mimeType, "presentation")
     \/ includes(mimeType, "sheet") THEN "documents"
  ELSE IF startsWith(mimeType, "image/") THEN "images"
  ELSE IF startsWith(mimeType, "video/") THEN "videos"
  ELSE "others"

detectCategory(mimeType) ==
  IF startsWith(mimeType, "image/") THEN "images"
  ELSE IF startsWith(mimeType, "video/") THEN "videos"
  ELSE IF \/ includes(mimeType, "pdf") \/ includes(mimeType, "text")
          \/ includes(mimeType, "word") \/ includes(mimeType, "presentation")
          \/ includes(mimeType, "sheet") THEN "documents"
  ELSE "others"

\* const id = Math.random().toString(36).substring(7)
newId(rnd) == substring(rnd, 7)

blobIdOf(id) == "blob_" \o id

\* The BeeFile literal built in handleUpload.
\* Mutant of makeBeeFile: a file without a type is stored as text/plain.
makeBeeFilePlainTextDefault(file, rnd, owner) ==
  [id |-> newId(rnd),
   blobId |-> blobIdOf(newId(rnd)),
   name |-> file.name,
   type |-> IF file.type = "" THEN "text/plain" ELSE file.type,
   size |-> file.size,
   lastModified |-> file.lastModified,
   ownerId |-> owner,
   category |-> detectCategory(file.type)]

makeBeeFile(file, rnd, owner) ==
  [id |-> newId(rnd),
   blobId |-> blobIdOf(newId(rnd)),
   name |-> file.name,
   type |-> IF file.type = "" THEN "application/octet-stream" ELSE file.type,
   size |-> file.size,
   lastModified |-> file.lastModified,
   ownerId |-> owner,
   category |-> detectCategory(file.type)]

\* Mutant of oversized: the comparison written with >= instead of >.
oversizedAtLimit(file) == file.size >= MAX_FILE_SIZE

\* if (file.size > 300 * 1024 * 1024) continue;
oversized(file) == file.size > MAX_FILE_SIZE

\* Number of files of a list that the loop does not skip.
acceptedIn(fileList) == Cardinality({j \in 1..Len(fileList) : ~oversized(fileList[j])})

\* Index of the first file at or after position i that the loop does not
\* skip, 0 when the loop runs off the end of the list.
nextAccepted(fileList, i) ==
  LET rest == {j \in i..Len(fileList) : ~oversized(fileList[j])}
  IN IF rest = {} THEN 0 ELSE CHOOSE j \in rest : \A k \in rest : j <= k

\* Mutant of filterSeq: a record with the id stays in place with its name
\* blanked instead of being left out.
RECURSIVE filterSeqBlanksName(_, _)
filterSeqBlanksName(s, id) ==
  IF s = <<>> THEN <<>>
  ELSE IF Head(s).id # id THEN <<Head(s)>> \o filterSeqBlanksName(Tail(s), id)
  ELSE <<[Head(s) EXCEPT !.name = ""]>> \o filterSeqBlanksName(Tail(s), id)

\* Mutant of filterSeq: only the first record with the id is left out.
RECURSIVE filterSeqFirstOnly(_, _)
filterSeqFirstOnly(s, id) ==
  IF s = <<>> THEN <<>>
  ELSE IF Head(s).id # id THEN <<Head(s)>> \o filterSeqFirstOnly(Tail(s), id)
  ELSE Tail(s)

\* Array.prototype.filter(f => f.id !== id)
RECURSIVE filterSeq(_, _)
filterSeq(s, id) ==
  IF s = <<>> THEN <<>>
  ELSE IF Head(s).id # id THEN <<Head(s)>> \o filterSeq(Tail(s), id)
  ELSE filterSeq(Tail(s), id)

\* getMetadata().filter(f => f.ownerId === u.id)
RECURSIVE ownedBy(_, _)
ownedBy(s, u) ==
  IF s = <<>> THEN <<>>
  ELSE IF Head(s).ownerId = u THEN <<Head(s)>> \o ownedBy(Tail(s), u)
  ELSE ownedBy(Tail(s), u)

\* files.find(f => f.id === id): index of the first match, 0 for undefined.
findIdx(s, id) ==
  LET hits == {j \in 1..Len(s) : s[j].id = id}
  IN IF hits = {} THEN 0 ELSE CHOOSE j \in hits : \A k \in hits : j <= k

\* store.put(blob, id) on the object store
saveFileBlob(store, key, content) ==
  [k \in (DOMAIN store) \cup {key} |-> IF k = key THEN content ELSE store[k]]

\* Mutant of deleteFileBlob: resolves without deleting anything.
deleteFileBlobKeepsBlob(store, key) == store

\* Mutant of deleteFileBlob: store.clear() in place of store.delete(id).
deleteFileBlobClearsStore(store, key) == [k \in {} |-> ""]

\* store.delete(id) on the object store
deleteFileBlob(store, key) == [k \in (DOMAIN store) \ {key} |-> store[k]]

\* store.get(id): the stored blob, undefined for a key that holds none
getFileBlob(store, key) == IF key \in DOMAIN store THEN store[key] ELSE "undefined"

\* ------------------------------------------------------------------------
\* State
\* ------------------------------------------------------------------------
VARIABLES
  meta,          \* localStorage[META_KEY]: the metadata document
  blobs,         \* the IndexedDB object store "files": key -> content
  user,          \* React state user (its id), NoUser for null
  files,         \* React state files: the in-memory view
  uploadStatus,  \* React state uploadStatus
  timers,        \* pending setTimeout(() => setUploadStatus(IDLE), 3000)
  uploads,       \* handleUpload calls suspended at await saveFileBlob
  deletes,       \* handleDelete calls suspended at await deleteFileBlob
  accepted,      \* files handleUpload has accepted so far
  users,         \* localStorage['bee_users']: the credential list
  session,       \* localStorage['bee_user']: the session record
  logins,        \* pending 400 ms timeouts of performLogin and handleLogout, oldest first
  ev             \* the outcome the last step produced

vars == <<meta, blobs, user, files, uploadStatus, timers, uploads, deletes, accepted,
          users, session, logins, ev>>

authVars == <<users, session, logins>>

\* localStorage.getItem('bee_user') is null: a record without fields.
NoSession == [field \in {} |-> ""]

\* const sessionUser = { id: u.id, email: u.email, name: u.name }
sessionUser(u) == [id |-> u.id, email |-> u.email, name |-> u.name]

\* The accounts behind Users, as signed up on an earlier visit.
Registered ==
  << [id |-> "u1", email |-> "u1@hive", name |-> "Ann", password |-> "pw1"],
     [id |-> "u2", email |-> "u2@hive", name |-> "Bob", password |-> "pw2"] >>

credentialOf(id) == Registered[CHOOSE k \in 1..Len(Registered) : Registered[k].id = id]

Free == [free |-> TRUE]

freeSlot(procs) ==
  LET free == {p \in DOMAIN procs : procs[p] = Free}
  IN IF free = {} THEN 0 ELSE CHOOSE p \in free : \A q \in free : p <= q

inFlight(procs) == {p \in DOMAIN procs : procs[p] # Free}

EmptyStore == [k \in {} |-> ""]

\* What an earlier visit may have left in localStorage and IndexedDB: nothing,
\* or one file that user u1 uploaded.
StoredRecord == makeBeeFile(StoredFile, RandStr[1], "u1")

Init ==
  /\ \/ /\ meta = <<>>
        /\ blobs = EmptyStore
     \/ /\ meta = <<StoredRecord>>
        /\ blobs = saveFileBlob(EmptyStore, StoredRecord.blobId, StoredFile.content)
  /\ user = NoUser
  /\ files = <<>>
  /\ uploadStatus = IDLE
  /\ timers = 0
  /\ uploads = [p \in 1..MaxUploads |-> Free]
  /\ deletes = [d \in 1..MaxDeletes |-> Free]
  /\ accepted = 0
  /\ ev = [op |-> "other"]
  /\ users = Registered
  /\ session = NoSession
  /\ logins = <<>>

\* ------------------------------------------------------------------------
\* handleUpload (App.tsx 235-266)
\* ------------------------------------------------------------------------
\* Mutant of uploadFinish: the document is replaced by the records of this
\* call alone, the last store wins.
uploadFinishLastStoreWins(fileList, owner, newFiles) ==
  /\ meta' = newFiles
  /\ files' = files \o newFiles
  /\ uploadStatus' = SUCCESS
  /\ timers' = timers + 1
  /\ ev' = [op |-> "uploadSuccess", fileList |-> fileList, owner |-> owner,
            created |-> newFiles]

\* Mutant of uploadFinish: the new records are stored and returned last
\* file first.
uploadFinishReversed(fileList, owner, newFiles) ==
  LET reversed == [k \in 1..Len(newFiles) |-> newFiles[Len(newFiles) + 1 - k]]
  IN /\ meta' = meta \o reversed
     /\ files' = files \o reversed
     /\ uploadStatus' = SUCCESS
     /\ timers' = timers + 1
     /\ ev' = [op |-> "uploadSuccess", fileList |-> fileList, owner |-> owner,
               created |-> reversed]

\* Lines 257-261: the tail of the try block, reached when the loop is over.
uploadFinish(fileList, owner, newFiles) ==
  /\ meta' = meta \o newFiles
  /\ files' = files \o newFiles
  /\ uploadStatus' = SUCCESS
  /\ timers' = timers + 1
  /\ ev' = [op |-> "uploadSuccess", fileList |-> fileList, owner |-> owner,
            created |-> newFiles]

\* The call itself: everything up to the first await.  A list without an
\* accepted file runs to the end of the try block in the same step.
UploadCall(fileList) ==
  /\ UNCHANGED <<blobs, user, deletes>>
  /\ IF user = NoUser
     THEN /\ ev' = [op |-> "other"]
          /\ UNCHANGED <<meta, files, uploadStatus, timers, uploads, accepted>>
     ELSE /\ freeSlot(uploads) # 0
          /\ timers + Cardinality(inFlight(uploads)) < MaxTimers
          /\ accepted + acceptedIn(fileList) <= MaxFiles
          /\ accepted' = accepted + acceptedIn(fileList)
          /\ LET j == nextAccepted(fileList, 1)
             IN IF j = 0
                THEN /\ uploadFinish(fileList, user, <<>>)
                     /\ UNCHANGED uploads
                ELSE /\ \E rnd \in RandPool :
                          uploads' = [uploads EXCEPT ![freeSlot(uploads)] =
                            [owner |-> user, fileList |-> fileList,
                             i |-> j, newFiles |-> <<>>,
                             cur |-> makeBeeFile(fileList[j], rnd, user)]]
                     /\ uploadStatus' = UPLOADING
                     /\ ev' = [op |-> "other"]
                     /\ UNCHANGED <<meta, files, timers>>
  /\ UNCHANGED authVars

\* await saveFileBlob resolves: the blob is in the store; push the record
\* and run the loop to the next await or to the end of the try block.
UploadBlobSaved(p) ==
  /\ uploads[p] # Free
  /\ blobs' = saveFileBlob(blobs, uploads[p].cur.blobId,
                           uploads[p].fileList[uploads[p].i].content)
  /\ UNCHANGED <<user, deletes, accepted>>
  /\ LET u == uploads[p]
         newFiles == Append(u.newFiles, u.cur)
         j == nextAccepted(u.fileList, u.i + 1)
     IN IF j = 0
        THEN /\ uploadFinish(u.fileList, u.owner, newFiles)
             /\ uploads' = [uploads EXCEPT ![p] = Free]
        ELSE /\ \E rnd \in RandPool :
                  uploads' = [uploads EXCEPT ![p] =
                    [u EXCEPT !.i = j, !.newFiles = newFiles,
                              !.cur = makeBeeFile(u.fileList[j], rnd, u.owner)]]
             /\ ev' = [op |-> "other"]
             /\ UNCHANGED <<meta, files, uploadStatus, timers>>
  /\ UNCHANGED authVars

\* await saveFileBlob rejects (the database does not open or the put
\* request fails): the catch block.
UploadBlobFailed(p) ==
  /\ uploads[p] # Free
  /\ uploadStatus' = ERROR
  /\ uploads' = [uploads EXCEPT ![p] = Free]
  /\ ev' = [op |-> "uploadError", fileList |-> uploads[p].fileList,
            written |-> uploads[p].newFiles, at |-> uploads[p].i]
  /\ UNCHANGED <<meta, blobs, user, files, timers, deletes, accepted>>
  /\ UNCHANGED authVars

\* Mutant of TimerFire: the timeout elapses without setting the status.
TimerFireKeepsStatus ==
  /\ timers > 0
  /\ timers' = timers - 1
  /\ ev' = [op |-> "other"]
  /\ UNCHANGED <<meta, blobs, user, files, uploadStatus, uploads, deletes, accepted>>
  /\ UNCHANGED authVars

\* setTimeout(() => setUploadStatus(StorageStatus.IDLE), 3000) fires.
TimerFire ==
  /\ timers > 0
  /\ timers' = timers - 1
  /\ uploadStatus' = IDLE
  /\ ev' = [op |-> "other"]
  /\ UNCHANGED <<meta, blobs, user, files, uploads, deletes, accepted>>
  /\ UNCHANGED authVars

\* ------------------------------------------------------------------------
\* handleDelete (App.tsx 268-278)
\* ------------------------------------------------------------------------
\* window.confirm answers false.
DeleteDeclined(id) ==
  /\ ev' = [op |-> "other"]
  /\ UNCHANGED <<meta, blobs, user, files, uploadStatus, timers, uploads, deletes, accepted>>
  /\ UNCHANGED authVars

\* Mutant of DeleteCall: the metadata document is rewritten before the blob
\* deletion is awaited.
DeleteCallRewritesFirst(id) ==
  /\ UNCHANGED <<blobs, user, files, uploadStatus, timers, uploads, accepted>>
  /\ IF findIdx(files, id) = 0
     THEN /\ ev' = [op |-> "deleteNotFound", settled |-> "resolved"]
          /\ UNCHANGED <<meta, deletes>>
     ELSE /\ freeSlot(deletes) # 0
          /\ deletes' = [deletes EXCEPT ![freeSlot(deletes)] =
               [id |-> id, fileToDelete |-> files[findIdx(files, id)],
                files |-> files]]
          /\ meta' = filterSeq(meta, id)
          /\ ev' = [op |-> "other"]
  /\ UNCHANGED authVars

\* window.confirm answers true: look the record up in the view of this
\* render and, when found, start deleting its blob; when not, the bare
\* return resolves the promise of the call.
DeleteCall(id) ==
  /\ UNCHANGED <<meta, blobs, user, files, uploadStatus, timers, uploads, accepted>>
  /\ IF findIdx(files, id) = 0
     THEN /\ ev' = [op |-> "deleteNotFound", settled |-> "resolved"]
          /\ UNCHANGED deletes
     ELSE /\ freeSlot(deletes) # 0
          /\ deletes' = [deletes EXCEPT ![freeSlot(deletes)] =
               [id |-> id, fileToDelete |-> files[findIdx(files, id)],
                files |-> files]]
          /\ ev' = [op |-> "other"]
  /\ UNCHANGED authVars

\* await deleteFileBlob resolves: the blob is gone; lines 273-276.
DeleteBlobDeleted(d) ==
  /\ deletes[d] # Free
  /\ blobs' = deleteFileBlob(blobs, deletes[d].fileToDelete.blobId)
  /\ files' = filterSeq(deletes[d].files, deletes[d].id)
  /\ meta' = filterSeq(meta, deletes[d].id)
  /\ deletes' = [deletes EXCEPT ![d] = Free]
  /\ ev' = [op |-> "deleteDone", settled |-> "resolved",
            fileToDelete |-> deletes[d].fileToDelete]
  /\ UNCHANGED <<user, uploadStatus, timers, uploads, accepted>>
  /\ UNCHANGED authVars

\* Mutant of DeleteBlobFailed: the rejection is swallowed and lines 273-276
\* run all the same.
DeleteBlobFailedProceeds(d) ==
  /\ deletes[d] # Free
  /\ files' = filterSeq(deletes[d].files, deletes[d].id)
  /\ meta' = filterSeq(meta, deletes[d].id)
  /\ deletes' = [deletes EXCEPT ![d] = Free]
  /\ ev' = [op |-> "deleteRejected", settled |-> "rejected",
            fileToDelete |-> deletes[d].fileToDelete]
  /\ UNCHANGED <<blobs, user, uploadStatus, timers, uploads, accepted>>
  /\ UNCHANGED authVars

\* await deleteFileBlob rejects: handleDelete has no catch, the rest of it
\* never runs.
DeleteBlobFailed(d) ==
  /\ deletes[d] # Free
  /\ deletes' = [deletes EXCEPT ![d] = Free]
  /\ ev' = [op |-> "deleteRejected", settled |-> "rejected",
            fileToDelete |-> deletes[d].fileToDelete]
  /\ UNCHANGED <<meta, blobs, user, files, uploadStatus, timers, uploads, accepted>>
  /\ UNCHANGED authVars

\* ------------------------------------------------------------------------
\* Session (App.tsx 187-233)
\* ------------------------------------------------------------------------
\* The entry a handleLogout call leaves among the pending timeouts; a
\* performLogin call leaves the user it was handed.
LogoutTimer == [logout |-> TRUE]

isLoginTimer(t) == "id" \in DOMAIN t

\* handleLogin submitted with the email and password of registered user u:
\* performLogin(foundUser) arms its 400 ms timeout.  The form is rendered
\* while no user is logged in.
Login(u) ==
  /\ user = NoUser
  /\ Len(logins) < MaxLogins
  /\ logins' = Append(logins, credentialOf(u))
  /\ ev' = [op |-> "other"]
  /\ UNCHANGED <<meta, blobs, user, files, uploadStatus, timers, uploads, deletes,
                 accepted, users, session>>

\* The timeout callback of the oldest pending call fires and it is one of
\* performLogin: lines 215-220, whoever is logged in by now.
PerformLogin ==
  /\ logins # <<>>
  /\ isLoginTimer(Head(logins))
  /\ session' = sessionUser(Head(logins))
  /\ user' = Head(logins).id
  /\ files' = ownedBy(meta, Head(logins).id)
  /\ logins' = Tail(logins)
  /\ ev' = [op |-> "other"]
  /\ UNCHANGED <<meta, blobs, uploadStatus, timers, uploads, deletes, accepted, users>>

\* The log-out button is clicked: handleLogout arms its 400 ms timeout.  The
\* button is rendered while a user is logged in.
Logout ==
  /\ user # NoUser
  /\ Len(logins) < MaxLogins
  /\ logins' = Append(logins, LogoutTimer)
  /\ ev' = [op |-> "other"]
  /\ UNCHANGED <<meta, blobs, user, files, uploadStatus, timers, uploads, deletes,
                 accepted, users, session>>

\* The timeout callback of the oldest pending call fires and it is one of
\* handleLogout: lines 227-229, whether or not a user is still logged in.
LogoutTimeout ==
  /\ logins # <<>>
  /\ ~isLoginTimer(Head(logins))
  /\ session' = NoSession
  /\ user' = NoUser
  /\ files' = <<>>
  /\ logins' = Tail(logins)
  /\ ev' = [op |-> "other"]
  /\ UNCHANGED <<meta, blobs, uploadStatus, timers, uploads, deletes, accepted, users>>

\* The ids a delete button or an open preview can carry.
Ids == {newId(rnd) : rnd \in RandPool}

Next ==
  \/ \E fileList \in FileLists : UploadCall(fileList)
  \/ \E p \in 1..MaxUploads : UploadBlobSaved(p)
  \/ \E p \in 1..MaxUploads : UploadBlobFailed(p)
  \/ TimerFire
  \/ \E id \in Ids : DeleteDeclined(id)
  \/ \E id \in Ids : DeleteCall(id)
  \/ \E d \in 1..MaxDeletes : DeleteBlobDeleted(d)
  \/ \E d \in 1..MaxDeletes : DeleteBlobFailed(d)
  \/ \E u \in Users : Login(u)
  \/ PerformLogin
  \/ Logout
  \/ LogoutTimeout

Spec == Init /\ [][Next]_vars

TypeOK ==
  /\ user \in Users \cup {NoUser}
  /\ uploadStatus \in StorageStatus
  /\ timers \in 0..MaxTimers
  /\ accepted \in 0..MaxFiles

\* ------------------------------------------------------------------------
\* Two concurrent uploads against an empty metadata document
\* ------------------------------------------------------------------------
\* File lists of which handleUpload accepts exactly one file, the small image
\* or the file at the limit, so that the two calls can add records of
\* different names.
OneFileLists ==
  {fileList \in UNION {[1..n -> FilePool \cup {StoredFile}] : n \in 0..MaxBatch} :
     acceptedIn(fileList) = 1}

\* The state handleUpload leaves at its first await (lines 235-254).
suspendedUpload(fileList, rnd, owner) ==
  [owner |-> owner, fileList |-> fileList, i |-> nextAccepted(fileList, 1),
   newFiles |-> <<>>,
   cur |-> makeBeeFile(fileList[nextAccepted(fileList, 1)], rnd, owner)]

\* User u1 is logged in, nothing is stored, and two handleUpload calls have
\* been made, each suspended at the saveFileBlob of its only accepted file.
InitTwoUploads ==
  /\ meta = <<>>
  /\ blobs = EmptyStore
  /\ user = "u1"
  /\ files = <<>>
  /\ uploadStatus = UPLOADING
  /\ timers = 0
  /\ \E l1, l2 \in OneFileLists : \E r1, r2 \in RandPool :
       uploads = [p \in 1..MaxUploads |->
                    IF p = 1 THEN suspendedUpload(l1, r1, "u1")
                    ELSE IF p = 2 THEN suspendedUpload(l2, r2, "u1")
                    ELSE Free]
  /\ deletes = [d \in 1..MaxDeletes |-> Free]
  /\ accepted = 2
  /\ ev = [op |-> "other"]
  /\ users = Registered
  /\ session = sessionUser(credentialOf("u1"))
  /\ logins = <<>>

\* Both blob writes succeed, in either order; the reset timers run.
NextTwoUploads ==
  \/ \E p \in 1..MaxUploads : UploadBlobSaved(p)
  \/ TimerFire

SpecTwoUploads == InitTwoUploads /\ [][NextTwoUploads]_vars

\* ------------------------------------------------------------------------
\* detectCategory on its own (storageService.ts 21-26)
\* ------------------------------------------------------------------------
\* The application as constructed, before anything is stored or called.
constructed ==
  /\ meta = <<>>
  /\ blobs = EmptyStore
  /\ user = NoUser
  /\ files = <<>>
  /\ uploadStatus = IDLE
  /\ timers = 0
  /\ uploads = [p \in 1..MaxUploads |-> Free]
  /\ deletes = [d \in 1..MaxDeletes |-> Free]
  /\ accepted = 0
  /\ users = <<>>
  /\ session = NoSession
  /\ logins = <<>>

\* The values of File.type handed to detectCategory: a top-level type (or
\* none) followed by a subtype (or none).
MimePrefixes == {"image/", "video/", "audio/", "application/", "text/", ""}

MimeSubtypes ==
  {"png", "mp4", "mpeg", "pdf", "plain", "msword", "zip", "",
   "vnd.openxmlformats-officedocument.presentationml.presentation",
   "vnd.openxmlformats-officedocument.spreadsheetml.sheet",
   "vnd.ms-excel.sheet.macroEnabled.12"}

MimeTypes == {p \o t : p \in MimePrefixes, t \in MimeSubtypes}

InitClassify ==
  /\ constructed
  /\ \E mimeType \in MimeTypes : ev = [op |-> "input", mimeType |-> mimeType]

\* One call of detectCategory.
Classify ==
  /\ ev.op = "input"
  /\ ev' = [op |-> "detectCategory", mimeType |-> ev.mimeType,
            category |-> detectCategory(ev.mimeType)]
  /\ UNCHANGED <<meta, blobs, user, files, uploadStatus, timers, uploads, deletes, accepted>>
  /\ UNCHANGED authVars

NextClassify == Classify

SpecClassify == InitClassify /\ [][NextClassify]_vars

\* ------------------------------------------------------------------------
\* filteredFiles (App.tsx 296-312)
\* ------------------------------------------------------------------------
MaxView == 3       \* longest view handed to filteredFiles and storageUsage

UpperChars == "ABCDEFGHIJKLMNOPQRSTUVWXYZ"

LowerChars == "abcdefghijklmnopqrstuvwxyz"

\* The order in which localeCompare ranks the characters used in names:
\* punctuation, digits, letters.
CollationOrder == ".0123456789abcdefghijklmnopqrstuvwxyz"

charAt(s, k) == SubSeq(s, k, k)

\* Position of a one-character string in a string, 0 when it is not there.
indexOf(s, c) ==
  LET hits == {k \in 1..Len(s) : charAt(s, k) = c}
  IN IF hits = {} THEN 0 ELSE CHOOSE k \in hits : \A h \in hits : k <= h

lowerChar(c) ==
  IF indexOf(UpperChars, c) = 0 THEN c ELSE charAt(LowerChars, indexOf(UpperChars, c))

\* String.prototype.toLowerCase
RECURSIVE toLowerCase(_)
toLowerCase(s) ==
  IF s = "" THEN "" ELSE lowerChar(charAt(s, 1)) \o toLowerCase(SubSeq(s, 2, Len(s)))

\* The first level of the collation: letters compared without their case.
RECURSIVE primaryCompare(_, _)
primaryCompare(a, b) ==
  IF a = "" /\ b = "" THEN 0
  ELSE IF a = "" THEN -1
  ELSE IF b = "" THEN 1
  ELSE LET ra == indexOf(CollationOrder, lowerChar(charAt(a, 1)))
           rb == indexOf(CollationOrder, lowerChar(charAt(b, 1)))
       IN IF ra < rb THEN -1
          ELSE IF ra > rb THEN 1
          ELSE primaryCompare(SubSeq(a, 2, Len(a)), SubSeq(b, 2, Len(b)))

\* The case level, for strings that are equal without their case: at the
\* first difference the lower-case letter comes first.
RECURSIVE caseCompare(_, _)
caseCompare(a, b) ==
  IF a = "" \/ b = "" THEN 0
  ELSE IF charAt(a, 1) = charAt(b, 1)
       THEN caseCompare(SubSeq(a, 2, Len(a)), SubSeq(b, 2, Len(b)))
  ELSE IF charAt(a, 1) = lowerChar(charAt(a, 1)) THEN -1
  ELSE 1

\* String.prototype.localeCompare: negative, zero or positive.
localeCompare(a, b) ==
  IF primaryCompare(a, b) # 0 THEN primaryCompare(a, b) ELSE caseCompare(a, b)

\* Mutant of matchesFilter: the search is case-sensitive.
matchesFilterCaseSensitive(f, search, activeCategory) ==
  /\ includes(f.name, search)
  /\ (activeCategory = "all" \/ f.category = activeCategory)

\* The predicate of files.filter (lines 297-301).
matchesFilter(f, search, activeCategory) ==
  /\ includes(toLowerCase(f.name), toLowerCase(search))
  /\ (activeCategory = "all" \/ f.category = activeCategory)

\* The comparator handed to result.sort (lines 303-310).
comparator(a, b, sortBy, sortOrder) ==
  LET comp == IF sortBy = "name" THEN localeCompare(a.name, b.name)
              ELSE IF sortBy = "size" THEN a.size - b.size
              ELSE IF sortBy = "date" THEN a.lastModified - b.lastModified
              ELSE IF sortBy = "category" THEN localeCompare(a.category, b.category)
              ELSE 0
  IN IF sortOrder = "asc" THEN comp ELSE -comp

\* Mutant of insertStable: an element goes before the elements that compare
\* equal to it.
insertBeforeEqual(sorted, x, sortBy, sortOrder) ==
  LET after == {k \in 1..Len(sorted) : comparator(sorted[k], x, sortBy, sortOrder) >= 0}
      at == IF after = {} THEN Len(sorted) + 1
            ELSE CHOOSE k \in after : \A h \in after : k <= h
  IN SubSeq(sorted, 1, at - 1) \o <<x>> \o SubSeq(sorted, at, Len(sorted))

\* Array.prototype.sort is stable: an element that follows the sorted ones in
\* the input goes before the first one that compares greater than it.
insertStable(sorted, x, sortBy, sortOrder) ==
  LET after == {k \in 1..Len(sorted) : comparator(sorted[k], x, sortBy, sortOrder) > 0}
      at == IF after = {} THEN Len(sorted) + 1
            ELSE CHOOSE k \in after : \A h \in after : k <= h
  IN SubSeq(sorted, 1, at - 1) \o <<x>> \o SubSeq(sorted, at, Len(sorted))

\* result.sort(comparator)
RECURSIVE sort(_, _, _)
sort(result, sortBy, sortOrder) ==
  IF result = <<>> THEN <<>>
  ELSE insertStable(sort(SubSeq(result, 1, Len(result) - 1), sortBy, sortOrder),
                    result[Len(result)], sortBy, sortOrder)

\* The value of the useMemo: a new array, filtered and then sorted.
filteredFiles(view, search, activeCategory, sortBy, sortOrder) ==
  sort(SelectSeq(view, LAMBDA f : matchesFilter(f, search, activeCategory)),
       sortBy, sortOrder)

\* Records a view can hold.
ViewFiles ==
  << [name |-> "b", type |-> "image/png", size |-> 10,
      lastModified |-> 3, content |-> "b-bytes"],
     [name |-> "a", type |-> "application/pdf", size |-> 10,
      lastModified |-> 1, content |-> "a-bytes"],
     [name |-> "B", type |-> "image/png", size |-> 20,
      lastModified |-> 2, content |-> "B-bytes"],
     [name |-> "ab", type |-> "video/mp4", size |-> 5,
      lastModified |-> 3, content |-> "ab-bytes"] >>

ViewRandom == <<1, 2, 4, 5>>

ViewRecords == {makeBeeFile(ViewFiles[n], RandStr[ViewRandom[n]], "u1") : n \in 1..4}

Views == UNION {[1..n -> ViewRecords] : n \in 0..MaxView}

Searches == {"", "a", "B", "AB"}

ActiveCategories == {"all", "images", "documents"}

SortKeys == {"name", "size", "date", "category"}

SortOrders == {"asc", "desc"}

\* User u1 looks at a view; the search box, the category tab and the sort
\* controls are set.
InitView ==
  /\ meta = <<>>
  /\ blobs = EmptyStore
  /\ user = "u1"
  /\ files \in Views
  /\ uploadStatus = IDLE
  /\ timers = 0
  /\ uploads = [p \in 1..MaxUploads |-> Free]
  /\ deletes = [d \in 1..MaxDeletes |-> Free]
  /\ accepted = 0
  /\ \E search \in Searches, activeCategory \in ActiveCategories,
        sortBy \in SortKeys, sortOrder \in SortOrders :
       ev = [op |-> "input", search |-> search, activeCategory |-> activeCategory,
             sortBy |-> sortBy, sortOrder |-> sortOrder]
  /\ users = Registered
  /\ session = sessionUser(credentialOf("u1"))
  /\ logins = <<>>

\* The render evaluates the useMemo.
FilterAndSort ==
  /\ ev.op = "input"
  /\ ev' = [op |-> "filteredFiles", view |-> files, search |-> ev.search,
            activeCategory |-> ev.activeCategory,
            sortBy |-> ev.sortBy, sortOrder |-> ev.sortOrder,
            result |-> filteredFiles(files, ev.search, ev.activeCategory,
                                     ev.sortBy, ev.sortOrder)]
  /\ UNCHANGED <<meta, blobs, user, files, uploadStatus, timers, uploads, deletes, accepted>>
  /\ UNCHANGED authVars

NextView == FilterAndSort

SpecView == InitView /\ [][NextView]_vars

\* ------------------------------------------------------------------------
\* storageUsage (App.tsx 314-321) and formatFileSize (storageService.ts 70-76)
\* ------------------------------------------------------------------------
MaxUsage == 7      \* longest view handed to storageUsage

\* Byte counts are JavaScript numbers and exceed 2^31 here: a count is kept
\* as mib * 2^20 + rem with 0 <= rem < 2^20.
MiB == 1024 * 1024

\* const quota = 1024 * 1024 * 1024 * 2, in MiB
QUOTA_MIB == 2 * 1024

bytes(n) == [mib |-> n \div MiB, rem |-> n % MiB]

plus(acc, n) ==
  [mib |-> acc.mib + (n \div MiB) + ((acc.rem + (n % MiB)) \div MiB),
   rem |-> (acc.rem + (n % MiB)) % MiB]

\* files.reduce((acc, f) => acc + f.size, 0)
RECURSIVE reduceSize(_, _)
reduceSize(view, acc) ==
  IF view = <<>> THEN acc ELSE reduceSize(Tail(view), plus(acc, Head(view).size))

\* Number.prototype.toFixed(1) of tenths / 10
toFixed1(tenths) == ToString(tenths \div 10) \o "." \o ToString(tenths % 10)

\* parseFloat(x.toFixed(2)) rendered as a string, for x = hundredths / 100:
\* trailing zeros of the fraction are gone.
parseFloatFixed2(hundredths) ==
  LET whole == ToString(hundredths \div 100)
      frac == hundredths % 100
  IN IF frac = 0 THEN whole
     ELSE IF frac % 10 = 0 THEN whole \o "." \o ToString(frac \div 10)
     ELSE IF frac < 10 THEN whole \o ".0" \o ToString(frac)
     ELSE whole \o "." \o ToString(frac)

\* const sizes = ['Bytes', 'KB', 'MB', 'GB']
sizes == <<"Bytes", "KB", "MB", "GB">>

\* ' ' + sizes[i]: an index past the end of the array reads undefined.
unitOf(i) == IF i + 1 \in DOMAIN sizes THEN " " \o sizes[i + 1] ELSE " undefined"

\* formatFileSize: i = floor(log(bytes) / log(1024)), the value bytes / 1024^i
\* rounded to hundredths (a tie goes up), and the unit sizes[i].  The byte
\* count is a pair of whole MiB and bytes beyond them, below 1024^5.
formatFileSize(n) ==
  IF n.mib = 0 /\ n.rem = 0 THEN "0 Bytes"
  ELSE IF n.mib = 0 /\ n.rem < 1024
       THEN parseFloatFixed2(n.rem * 100) \o unitOf(0)
  ELSE IF n.mib = 0
       THEN parseFloatFixed2((n.rem * 200 + 1024) \div 2048) \o unitOf(1)
  ELSE IF n.mib < 1024
       THEN parseFloatFixed2(n.mib * 100 + ((n.rem * 100 + MiB \div 2) \div MiB)) \o unitOf(2)
  ELSE IF n.mib < 1024 * 1024
       THEN parseFloatFixed2((n.mib * 100 + ((n.rem * 100 + 512 * MiB) \div MiB)) \div 1024)
              \o unitOf(3)
  ELSE parseFloatFixed2((n.mib * 100 + ((n.rem * 100) \div MiB) + 512 * 1024) \div (1024 * 1024))
         \o unitOf(4)

\* Mutant of percentOf: no Math.min.
percentUnclamped(total) ==
  toFixed1((total.mib * 125 + ((total.rem * 125 + 128 * MiB) \div MiB)) \div 256)

\* Math.min((total / quota) * 100, 100).toFixed(1): the tenths are
\* total * 1000 / 2^31 rounded to the nearest integer, a tie going up.
percentOf(total) ==
  IF total.mib >= QUOTA_MIB THEN toFixed1(1000)
  ELSE toFixed1((total.mib * 125 + ((total.rem * 125 + 128 * MiB) \div MiB)) \div 256)

\* Records a view can hold, by the files they were uploaded from.
UsageFiles ==
  << [name |-> "notes", type |-> "", size |-> MAX_FILE_SIZE,
      lastModified |-> 10, content |-> "raw-bytes"],
     [name |-> "Bee.png", type |-> "image/png", size |-> 1024,
      lastModified |-> 20, content |-> "png-bytes"],
     [name |-> "scan.pdf", type |-> "application/pdf", size |-> 40 * MiB + 1152,
      lastModified |-> 30, content |-> "pdf-bytes"] >>

UsageRecords == {makeBeeFile(UsageFiles[n], RandStr[1], "u1") : n \in 1..3}

UsageViews == UNION {[1..n -> UsageRecords] : n \in 0..MaxUsage}

InitUsage ==
  /\ meta = <<>>
  /\ blobs = EmptyStore
  /\ user = "u1"
  /\ files \in UsageViews
  /\ uploadStatus = IDLE
  /\ timers = 0
  /\ uploads = [p \in 1..MaxUploads |-> Free]
  /\ deletes = [d \in 1..MaxDeletes |-> Free]
  /\ accepted = 0
  /\ ev = [op |-> "input"]
  /\ users = Registered
  /\ session = sessionUser(credentialOf("u1"))
  /\ logins = <<>>

\* The render evaluates the useMemo.
StorageUsage ==
  /\ ev.op = "input"
  /\ ev' = [op |-> "storageUsage",
            total |-> formatFileSize(reduceSize(files, bytes(0))),
            percent |-> percentOf(reduceSize(files, bytes(0)))]
  /\ UNCHANGED <<meta, blobs, user, files, uploadStatus, timers, uploads, deletes, accepted>>
  /\ UNCHANGED authVars

NextUsage == StorageUsage

SpecUsage == InitUsage /\ [][NextUsage]_vars

\* ------------------------------------------------------------------------
\* formatFileSize on its own (storageService.ts 70-76)
\* ------------------------------------------------------------------------
MaxRecords == 3496   \* most records of a view whose sizes are added up

\* The byte counts handed to formatFileSize: sizes of single files around
\* the powers of 1024 and up to the size limit, and usage totals, the sum
\* of the sizes of k files of the size limit and possibly one small file.
FormatInputs ==
  {bytes(b) : b \in {0, 1, 1023, 1024, 1536, 1024 * 1024 - 1, 1024 * 1024,
                     MAX_FILE_SIZE}}
  \cup {plus([mib |-> k * (MAX_FILE_SIZE \div MiB), rem |-> 0], small) :
          k \in 1..MaxRecords, small \in {0, 1024}}

InitFormat ==
  /\ constructed
  /\ \E n \in FormatInputs : ev = [op |-> "input", bytes |-> n]

\* One call of formatFileSize.
Format ==
  /\ ev.op = "input"
  /\ ev' = [op |-> "formatFileSize", bytes |-> ev.bytes, text |-> formatFileSize(ev.bytes)]
  /\ UNCHANGED <<meta, blobs, user, files, uploadStatus, timers, uploads, deletes, accepted>>
  /\ UNCHANGED authVars

NextFormat == Format

SpecFormat == InitFormat /\ [][NextFormat]_vars

\* ------------------------------------------------------------------------
\* The blob store on its own (storageService.ts 28-59)
\* ------------------------------------------------------------------------
BlobKeys == {blobIdOf(newId(RandStr[n])) : n \in 1..Len(RandStr)}

BlobContents == {f.content : f \in FilePool}

InitBlobStore ==
  /\ constructed
  /\ ev = [op |-> "other"]

\* await saveFileBlob(id, blob) resolves.
SaveBlob(key, content) ==
  /\ blobs' = saveFileBlob(blobs, key, content)
  /\ ev' = [op |-> "other"]
  /\ UNCHANGED <<meta, user, files, uploadStatus, timers, uploads, deletes, accepted>>
  /\ UNCHANGED authVars

\* await deleteFileBlob(id) resolves.
DeleteBlob(key) ==
  /\ blobs' = deleteFileBlob(blobs, key)
  /\ ev' = [op |-> "other"]
  /\ UNCHANGED <<meta, user, files, uploadStatus, timers, uploads, deletes, accepted>>
  /\ UNCHANGED authVars

\* getFileBlob(id) settles through request.onsuccess: the promise resolves
\* with request.result.
GetBlob(key) ==
  /\ ev' = [op |-> "getFileBlob", key |-> key, settled |-> "resolved",
            result |-> getFileBlob(blobs, key)]
  /\ UNCHANGED <<meta, blobs, user, files, uploadStatus, timers, uploads, deletes, accepted>>
  /\ UNCHANGED authVars

\* getFileBlob(id) settles through request.onerror or a failing initDB: the
\* promise rejects.
GetBlobFailed(key) ==
  /\ ev' = [op |-> "getFileBlob", key |-> key, settled |-> "rejected",
            result |-> "error"]
  /\ UNCHANGED <<meta, blobs, user, files, uploadStatus, timers, uploads, deletes, accepted>>
  /\ UNCHANGED authVars

NextBlobStore ==
  \/ \E key \in BlobKeys, content \in BlobContents : SaveBlob(key, content)
  \/ \E key \in BlobKeys : DeleteBlob(key)
  \/ \E key \in BlobKeys : GetBlob(key)
  \/ \E key \in BlobKeys : GetBlobFailed(key)

SpecBlobStore == InitBlobStore /\ [][NextBlobStore]_vars

\* ------------------------------------------------------------------------
\* Sign up, log in, log out (App.tsx 187-233)
\* ------------------------------------------------------------------------
MaxUsers == 3      \* longest credential list

\* String.prototype.substring(from, to)
substringTo(s, from, to) ==
  SubSeq(s, from + 1, IF to < Len(s) THEN to ELSE Len(s))

\* Math.random().toString(36).substring(2, 9)
newUserId(rnd) == substringTo(rnd, 2, 9)

\* What the form fields can hold.
Emails == {"ann@hive", "bob@hive"}

Names == {"Ann"}

Passwords == {"wax", "honey"}

\* Mutant of emailTaken: no email counts as taken.
emailNeverTaken(list, email) == FALSE

\* users.some(u => u.email === email)
emailTaken(list, email) == \E k \in 1..Len(list) : list[k].email = email

\* users.find(u => u.email === email && u.password === password): index of
\* the first match, 0 for undefined.
findUser(list, email, password) ==
  LET hits == {k \in 1..Len(list) :
                 list[k].email = email /\ list[k].password = password}
  IN IF hits = {} THEN 0 ELSE CHOOSE k \in hits : \A h \in hits : k <= h

\* Nothing is stored and nobody is logged in.
InitAuth ==
  /\ constructed
  /\ ev = [op |-> "other"]

\* The sign-up form is submitted; the form is rendered while no user is
\* logged in.
HandleSignUp(email, name, password, rnd) ==
  /\ user = NoUser
  /\ IF emailTaken(users, email)
     THEN /\ ev' = [op |-> "signUpRejected", email |-> email]
          /\ UNCHANGED <<users, logins>>
     ELSE /\ Len(users) < MaxUsers
          /\ Len(logins) < MaxLogins
          /\ LET newUser == [id |-> newUserId(rnd), email |-> email,
                             name |-> name, password |-> password]
             IN /\ users' = Append(users, newUser)
                /\ logins' = Append(logins, newUser)
          /\ ev' = [op |-> "signUp", email |-> email]
  /\ UNCHANGED <<meta, blobs, user, files, uploadStatus, timers, uploads, deletes,
                 accepted, session>>

\* The log-in form is submitted.
HandleLogin(email, password) ==
  /\ user = NoUser
  /\ IF findUser(users, email, password) # 0
     THEN /\ Len(logins) < MaxLogins
          /\ logins' = Append(logins, users[findUser(users, email, password)])
          /\ ev' = [op |-> "loginAccepted", email |-> email, password |-> password]
     ELSE /\ ev' = [op |-> "loginDenied", email |-> email, password |-> password]
          /\ UNCHANGED logins
  /\ UNCHANGED <<meta, blobs, user, files, uploadStatus, timers, uploads, deletes,
                 accepted, users, session>>

NextAuth ==
  \/ \E email \in Emails, name \in Names, password \in Passwords, rnd \in RandPool :
       HandleSignUp(email, name, password, rnd)
  \/ \E email \in Emails, password \in Passwords : HandleLogin(email, password)
  \/ PerformLogin
  \/ Logout
  \/ LogoutTimeout

SpecAuth == InitAuth /\ [][NextAuth]_vars

\* ------------------------------------------------------------------------
\* getFileInsight (geminiService.ts 4-25)
\* ------------------------------------------------------------------------
INSIGHT_DEFAULT == "I've analyzed your file! It's safely stored in your Bee Hive."

INSIGHT_FALLBACK == "The bees are busy right now, but your file is safe and sound!"

\* What PreviewModal passes: name, type and a text snippet, "" for none.
InsightNames == {"Bee.png", "notes", "scan.pdf"}

InsightTypes == {"image/png", "application/octet-stream", "text/plain"}

InsightSnippets == {"", "honey", "wax and honey, both of them"}

\* What generateContent can resolve with: a response without text, with an
\* empty text, with a text.
InsightResponses ==
  {[candidates |-> 0], [candidates |-> 1, text |-> ""],
   [candidates |-> 1, text |-> "A picture of a bee. Keep it."]}

\* The template literal of the prompt, by its variable parts: the Content
\* Preview line is there for a non-empty snippet, cut to 500 characters.
promptOf(fileName, fileType, contentSnippet) ==
  [fileName |-> fileName, fileType |-> fileType,
   preview |-> IF contentSnippet # "" THEN substringTo(contentSnippet, 0, 500) ELSE ""]

\* Mutant of textOrDefault: response.text as it is.
textAsItIs(response) ==
  IF "text" \in DOMAIN response THEN response.text ELSE ""

\* response.text || "I've analyzed your file! ..."
textOrDefault(response) ==
  IF "text" \in DOMAIN response /\ response.text # "" THEN response.text
  ELSE INSIGHT_DEFAULT

InitInsight ==
  /\ constructed
  /\ \E fileName \in InsightNames, fileType \in InsightTypes,
        contentSnippet \in InsightSnippets :
       ev = [op |-> "input", fileName |-> fileName, fileType |-> fileType,
             contentSnippet |-> contentSnippet]

\* The call up to the await: the client is built and generateContent is
\* called once with the prompt.
InsightCall ==
  /\ ev.op = "input"
  /\ ev' = [op |-> "insightPending", fileName |-> ev.fileName, requests |-> 1,
            prompt |-> promptOf(ev.fileName, ev.fileType, ev.contentSnippet)]
  /\ UNCHANGED <<meta, blobs, user, files, uploadStatus, timers, uploads, deletes, accepted>>
  /\ UNCHANGED authVars

\* new GoogleGenAI(...) throws before any request: the catch block.  The
\* record keeps the prompt the call would have sent, to tell the calls apart.
InsightClientThrows ==
  /\ ev.op = "input"
  /\ ev' = [op |-> "getFileInsight", fileName |-> ev.fileName,
            prompt |-> promptOf(ev.fileName, ev.fileType, ev.contentSnippet),
            requests |-> 0, outcome |-> "threw",
            settled |-> "resolved", result |-> INSIGHT_FALLBACK]
  /\ UNCHANGED <<meta, blobs, user, files, uploadStatus, timers, uploads, deletes, accepted>>
  /\ UNCHANGED authVars

\* await generateContent resolves: line 19.
InsightResolved(response) ==
  /\ ev.op = "insightPending"
  /\ ev' = [op |-> "getFileInsight", fileName |-> ev.fileName, prompt |-> ev.prompt,
            requests |-> ev.requests, outcome |-> "answered",
            settled |-> "resolved", result |-> textOrDefault(response)]
  /\ UNCHANGED <<meta, blobs, user, files, uploadStatus, timers, uploads, deletes, accepted>>
  /\ UNCHANGED authVars

\* await generateContent rejects: the catch block.
InsightRejected ==
  /\ ev.op = "insightPending"
  /\ ev' = [op |-> "getFileInsight", fileName |-> ev.fileName, prompt |-> ev.prompt,
            requests |-> ev.requests, outcome |-> "threw",
            settled |-> "resolved", result |-> INSIGHT_FALLBACK]
  /\ UNCHANGED <<meta, blobs, user, files, uploadStatus, timers, uploads, deletes, accepted>>
  /\ UNCHANGED authVars

NextInsight ==
  \/ InsightCall
  \/ InsightClientThrows
  \/ \E response \in InsightResponses : InsightResolved(response)
  \/ InsightRejected

SpecInsight == InitInsight /\ [][NextInsight]_vars

\* ------------------------------------------------------------------------
\* Uploads of files of many types (App.tsx 235-266)
\* ------------------------------------------------------------------------
\* Values of File.type: none, one per branch of detectCategory, types that
\* fit two branches, and the default that a file without type is stored with.
TypedMimes ==
  {"", "image/png", "video/mp4", "audio/mpeg", "application/pdf", "text/plain",
   "application/msword", "application/zip", "application/octet-stream",
   "image/pdf", "video/text",
   "application/vnd.openxmlformats-officedocument.spreadsheetml.sheet"}

TypedLists ==
  {<<[name |-> "file", type |-> t, size |-> 1024, lastModified |-> 20,
      content |-> "bytes"]>> : t \in TypedMimes}

\* User u1 is logged in and nothing is stored.
InitTyped ==
  /\ meta = <<>>
  /\ blobs = EmptyStore
  /\ user = "u1"
  /\ files = <<>>
  /\ uploadStatus = IDLE
  /\ timers = 0
  /\ uploads = [p \in 1..MaxUploads |-> Free]
  /\ deletes = [d \in 1..MaxDeletes |-> Free]
  /\ accepted = 0
  /\ ev = [op |-> "other"]
  /\ users = Registered
  /\ session = sessionUser(credentialOf("u1"))
  /\ logins = <<>>

NextTyped ==
  \/ \E fileList \in TypedLists : UploadCall(fileList)
  \/ \E p \in 1..MaxUploads : UploadBlobSaved(p)
  \/ TimerFire

SpecTyped == InitTyped /\ [][NextTyped]_vars

\* ------------------------------------------------------------------------
\* Sequential use (App.tsx 235-278)
\* ------------------------------------------------------------------------
\* No handleUpload and no handleDelete is suspended at its await.
quiet == inFlight(uploads) = {} /\ inFlight(deletes) = {}

\* Uploads and confirmed removes are called one at a time, each when the
\* one before is over, and every blob request succeeds; the user may log
\* in and out at any time.
NextSequential ==
  \/ quiet /\ \E fileList \in FileLists : UploadCall(fileList)
  \/ \E p \in 1..MaxUploads : UploadBlobSaved(p)
  \/ TimerFire
  \/ quiet /\ \E id \in Ids : DeleteCall(id)
  \/ \E d \in 1..MaxDeletes : DeleteBlobDeleted(d)
  \/ \E u \in Users : Login(u)
  \/ PerformLogin
  \/ Logout
  \/ LogoutTimeout

SpecSequential == Init /\ [][NextSequential]_vars

\* ------------------------------------------------------------------------
\* Timers that elapse (App.tsx 235-278)
\* ------------------------------------------------------------------------
\* User u1 is logged in, with what an earlier visit left, and stays logged
\* in: the handlers of the file list run in any order, nobody logs in or out.
InitOneSession ==
  /\ \/ /\ meta = <<>>
        /\ blobs = EmptyStore
     \/ /\ meta = <<StoredRecord>>
        /\ blobs = saveFileBlob(EmptyStore, StoredRecord.blobId, StoredFile.content)
  /\ user = "u1"
  /\ files = ownedBy(meta, "u1")
  /\ uploadStatus = IDLE
  /\ timers = 0
  /\ uploads = [p \in 1..MaxUploads |-> Free]
  /\ deletes = [d \in 1..MaxDeletes |-> Free]
  /\ accepted = 0
  /\ ev = [op |-> "other"]
  /\ users = Registered
  /\ session = sessionUser(credentialOf("u1"))
  /\ logins = <<>>

NextOneSession ==
  \/ \E fileList \in FileLists : UploadCall(fileList)
  \/ \E p \in 1..MaxUploads : UploadBlobSaved(p)
  \/ \E p \in 1..MaxUploads : UploadBlobFailed(p)
  \/ TimerFire
  \/ \E id \in Ids : DeleteDeclined(id)
  \/ \E id \in Ids : DeleteCall(id)
  \/ \E d \in 1..MaxDeletes : DeleteBlobDeleted(d)
  \/ \E d \in 1..MaxDeletes : DeleteBlobFailed(d)

\* An armed setTimeout callback runs once its 3000 ms are over: the event
\* loop does not leave a due timer waiting forever.
SpecTimersElapse == InitOneSession /\ [][NextOneSession]_vars /\ WF_vars(TimerFire)

\* ------------------------------------------------------------------------
\* Removes that overlap (App.tsx 268-278)
\* ------------------------------------------------------------------------
\* A second file that user u1 uploaded on an earlier visit.
SecondRecord == makeBeeFile(AtLimitFile, RandStr[2], "u1")

\* User u1 is logged in and sees the two files of an earlier visit; the
\* delete buttons of the file list are clicked in any order, a click not
\* waiting for the remove before it, and nothing is uploaded.
InitTwoRemoves ==
  /\ meta = <<StoredRecord, SecondRecord>>
  /\ blobs = saveFileBlob(
               saveFileBlob(EmptyStore, StoredRecord.blobId, StoredFile.content),
               SecondRecord.blobId, AtLimitFile.content)
  /\ user = "u1"
  /\ files = ownedBy(meta, "u1")
  /\ uploadStatus = IDLE
  /\ timers = 0
  /\ uploads = [p \in 1..MaxUploads |-> Free]
  /\ deletes = [d \in 1..MaxRemoves |-> Free]
  /\ accepted = 0
  /\ ev = [op |-> "other"]
  /\ users = Registered
  /\ session = sessionUser(credentialOf("u1"))
  /\ logins = <<>>

NextTwoRemoves ==
  \/ \E id \in Ids : DeleteDeclined(id)
  \/ \E id \in Ids : DeleteCall(id)
  \/ \E d \in 1..MaxRemoves : DeleteBlobDeleted(d)
  \/ \E d \in 1..MaxRemoves : DeleteBlobFailed(d)

SpecTwoRemoves == InitTwoRemoves /\ [][NextTwoRemoves]_vars

\* ------------------------------------------------------------------------
\* Properties
\* ------------------------------------------------------------------------
\* The size limit as the specification states it: at most 300 MiB.
withinLimit(file) == file.size <= 300 * 1024 * 1024

\* list(ownerId): the records of the metadata document that owner u sees.
list(u) == ownedBy(meta, u)

positionsOf(s, id) == {j \in 1..Len(s) : s[j].id = id}

\* C1 - Round trip: when an upload completes successfully, list(owner) holds
\* exactly one record per accepted file, with the id the upload created for
\* it, and the blob stored under that record's blobId is the content that
\* was supplied for the file.
RoundTrip ==
  ev.op = "uploadSuccess" =>
    LET acc == SelectSeq(ev.fileList, withinLimit)
    IN /\ Len(ev.created) = Len(acc)
       /\ \A k \in 1..Len(ev.created) :
            /\ Cardinality(positionsOf(list(ev.owner), ev.created[k].id)) = 1
            /\ \E j \in 1..Len(list(ev.owner)) : list(ev.owner)[j] = ev.created[k]
            /\ getFileBlob(blobs, ev.created[k].blobId) = acc[k].content

\* C2 - No dangling reference: every record of the metadata document has a
\* blob stored under its blobId, in every reachable state.
NoDanglingReference ==
  \A j \in 1..Len(meta) : meta[j].blobId \in DOMAIN blobs

\* C3 - The metadata document never holds two records with the same id.
UniqueIds ==
  \A j, k \in 1..Len(meta) : j # k => meta[j].id # meta[k].id

\* C4 - No two distinct records of the metadata document share a blobId.
UniqueBlobKeys ==
  \A j, k \in 1..Len(meta) : j # k => meta[j].blobId # meta[k].blobId

\* C5 - When a confirmed remove of a record of the caller's view completes,
\* no record with that id is in the metadata document and no blob is stored
\* under the record's blobId.
RemoveDeletesRecordAndBlob ==
  ev.op = "deleteDone" =>
    /\ positionsOf(meta, ev.fileToDelete.id) = {}
    /\ ev.fileToDelete.blobId \notin DOMAIN blobs

\* A remove completed for a record that had its blob, and other data is
\* still stored.
RemoveDeletesRecordAndBlobWitness ==
  /\ ev.op = "deleteDone"
  /\ positionsOf(meta, ev.fileToDelete.id) = {}
  /\ ev.fileToDelete.blobId \notin DOMAIN blobs
  /\ meta # <<>>
  /\ blobs # EmptyStore

\* A remove that finds no record for its id in the view ends in an error.
NotFoundIsAnError ==
  [](ev.op = "deleteNotFound" => ev.settled = "rejected")

\* A remove that finds no record for its id in the view changes neither
\* the metadata document nor the blob store nor the view.
NotFoundChangesNothing ==
  [][ev'.op = "deleteNotFound" => UNCHANGED <<meta, blobs, files>>]_vars

\* A remove goes on to the blob deletion only for an id that is still
\* stored: called for an id whose remove has completed, it finds nothing.
\* (Under SpecTwoRemoves nothing is uploaded and the stored ids differ, so
\* an id is missing from the document exactly when its remove has
\* completed.)
SecondRemoveFindsNothing ==
  [][\A d \in DOMAIN deletes :
       (deletes[d] = Free /\ deletes'[d] # Free) =>
         positionsOf(meta, deletes'[d].id) # {}]_vars

\* C6 - Idempotent delete: a remove called a second time after a completed
\* remove of the same id, or called with an id that is not in the caller's
\* view, is a NotFound outcome, an error, and changes neither the metadata
\* document nor the blob store nor the view.
IdempotentDelete ==
  /\ NotFoundIsAnError
  /\ NotFoundChangesNothing
  /\ SecondRemoveFindsNothing

\* C7 as stated - when the blob deletion of a remove fails, the record with
\* that id is no longer in the metadata document afterwards.
RemoveProceedsAfterFailedBlobDelete ==
  ev.op = "deleteRejected" => positionsOf(meta, ev.fileToDelete.id) = {}

\* C7 amended - when the blob deletion of a remove fails, the remove stops
\* there: the metadata document, the blob store and the view are left as
\* they were, and the record is still in the metadata document.
RemoveStopsAfterFailedBlobDelete ==
  [][ev'.op = "deleteRejected" =>
       /\ UNCHANGED <<meta, blobs, files>>
       /\ (positionsOf(meta, ev'.fileToDelete.id) # {} =>
             positionsOf(meta', ev'.fileToDelete.id) # {})]_vars

\* A remove failed at its blob deletion and its record is still stored, with
\* its blob.
RemoveStopsAfterFailedBlobDeleteWitness ==
  /\ ev.op = "deleteRejected"
  /\ positionsOf(meta, ev.fileToDelete.id) # {}
  /\ ev.fileToDelete.blobId \in DOMAIN blobs

\* The source files a sequence of records was built from, as far as a record
\* tells.
sameFiles(records, fileSeq) ==
  /\ Len(records) = Len(fileSeq)
  /\ \A k \in 1..Len(records) :
       /\ records[k].name = fileSeq[k].name
       /\ records[k].size = fileSeq[k].size
       /\ records[k].lastModified = fileSeq[k].lastModified

\* C8 - Size limit: an upload creates records, in input order, for exactly
\* the files of its list that are at most 300*1024*1024 bytes long; a longer
\* file gets no record and no blob write and does not make the upload fail.
SizeLimitBoundary ==
  /\ ev.op = "uploadSuccess" =>
       sameFiles(ev.created, SelectSeq(ev.fileList, withinLimit))
  /\ \A p \in inFlight(uploads) :
       /\ withinLimit(uploads[p].fileList[uploads[p].i])
       /\ sameFiles(Append(uploads[p].newFiles, uploads[p].cur),
                    SelectSeq(SubSeq(uploads[p].fileList, 1, uploads[p].i), withinLimit))
  /\ \A j \in 1..Len(meta) : meta[j].size <= 300 * 1024 * 1024

\* An upload of a file of exactly 300 MiB and a file one byte longer
\* succeeded with a record for the first only.
SizeLimitBoundaryWitness ==
  /\ ev.op = "uploadSuccess"
  /\ \E k \in 1..Len(ev.fileList) : ev.fileList[k].size = 300 * 1024 * 1024 + 1
  /\ Len(ev.created) = 1
  /\ ev.created[1].size = 300 * 1024 * 1024

\* C9 - Failed upload: when a blob write of an upload fails, the status is
\* Error, the failing step leaves the metadata document and the view as they
\* were, the blobs written for earlier files of the list are in the blob
\* store and no record refers to them, and the upload writes nothing more.
FailedUpload ==
  ev.op = "uploadError" =>
    /\ uploadStatus = ERROR
    /\ \A k \in 1..Len(ev.written) :
         /\ ev.written[k].blobId \in DOMAIN blobs
         /\ \A j \in 1..Len(meta) : meta[j].blobId # ev.written[k].blobId

\* C10 - Upload status: every change of uploadStatus is Idle->Uploading,
\* Uploading->Success, Uploading->Error, Success->Idle, or an upload call
\* entering Uploading (a call that completes without suspending passes
\* through Uploading to Success in one step).
UploadStatusMachine ==
  [][uploadStatus' # uploadStatus =>
       \/ uploadStatus = IDLE /\ uploadStatus' = UPLOADING
       \/ uploadStatus = UPLOADING /\ uploadStatus' = SUCCESS
       \/ uploadStatus = UPLOADING /\ uploadStatus' = ERROR
       \/ uploadStatus = SUCCESS /\ uploadStatus' = IDLE
       \/ ev'.op = "other" /\ uploadStatus' = UPLOADING /\ uploads' # uploads
       \/ ev'.op = "uploadSuccess" /\ uploads' = uploads]_vars

\* C11 - Error is sticky: once uploadStatus is Error, the only step that
\* moves it out of Error is a new upload call (which enters Uploading, or
\* runs through to Success when its list has no accepted file); no timer
\* and no completion of an earlier upload does.
ErrorStaysUntilUploadCall ==
  [][uploadStatus = ERROR /\ uploadStatus' # ERROR =>
       \/ /\ ev'.op = "other"
          /\ uploadStatus' = UPLOADING
          /\ inFlight(uploads) # inFlight(uploads')
          /\ inFlight(uploads) \subseteq inFlight(uploads')
       \/ ev'.op = "uploadSuccess" /\ uploads' = uploads]_vars

\* C12 - Owner isolation: in every reachable state every record of the
\* in-memory view belongs to the current user, and the view is empty when
\* no user is logged in.
OwnerIsolation ==
  /\ \A j \in 1..Len(files) : files[j].ownerId = user
  /\ user = NoUser => files = <<>>

\* C13 as stated - lost update: when two concurrent upload calls against an
\* empty metadata document, each adding one record, have both completed
\* successfully, the metadata document holds only one of the two records.
LostUpdateRace ==
  inFlight(uploads) = {} => Len(meta) = 1

\* C13 amended - no lost update: in every interleaving of two concurrent
\* upload calls against an empty metadata document, each adding one record
\* and both completing successfully, every completion appends its record to
\* the document as it is then, so the document holds one record per
\* completed call and both records in the end, in completion order.
NoLostUpdate ==
  /\ [](Len(meta) = 2 - Cardinality(inFlight(uploads)))
  /\ [][\A p \in inFlight(uploads) \ inFlight(uploads') :
          meta' = Append(meta, uploads[p].cur)]_vars

\* Both calls have completed, the second one last, and the metadata document
\* holds the record of the other call followed by the record of this one.
NoLostUpdateWitness ==
  /\ inFlight(uploads) = {}
  /\ ev.op = "uploadSuccess"
  /\ Len(meta) = 2
  /\ meta[2] = ev.created[1]
  /\ meta[1].name # meta[2].name
  /\ meta[1].id # meta[2].id

\* Whether a MIME type contains one of the given substrings.
includesAny(mimeType, parts) == \E part \in parts : includes(mimeType, part)

\* C14 as stated - classify gives images for a type starting with image/,
\* else videos for one starting with video/, else documents for one
\* containing pdf, text, word, presentation or spreadsheet, else others.
ClassifyBySpreadsheet ==
  ev.op = "detectCategory" =>
    ev.category =
      IF startsWith(ev.mimeType, "image/") THEN "images"
      ELSE IF startsWith(ev.mimeType, "video/") THEN "videos"
      ELSE IF includesAny(ev.mimeType,
                {"pdf", "text", "word", "presentation", "spreadsheet"})
           THEN "documents"
      ELSE "others"

\* C14 amended - classify is total with values images, videos, documents and
\* others: images exactly for a type starting with image/; videos exactly
\* for one starting with video/; documents exactly for one that starts with
\* neither and contains pdf, text, word, presentation or sheet; others for
\* everything else.  image/png is images, application/pdf is documents and
\* audio/mpeg is others.
ClassifyBySheet ==
  ev.op = "detectCategory" =>
    LET isImage == startsWith(ev.mimeType, "image/")
        isVideo == startsWith(ev.mimeType, "video/")
        isDocument == includesAny(ev.mimeType,
                        {"pdf", "text", "word", "presentation", "sheet"})
    IN /\ ev.category \in {"images", "videos", "documents", "others"}
       /\ ev.category = "images" <=> isImage
       /\ ev.category = "videos" <=> isVideo
       /\ ev.category = "documents" <=> ~isImage /\ ~isVideo /\ isDocument
       /\ ev.mimeType = "image/png" => ev.category = "images"
       /\ ev.mimeType = "application/pdf" => ev.category = "documents"
       /\ ev.mimeType = "audio/mpeg" => ev.category = "others"

\* A type that contains sheet but not spreadsheet has been classified as a
\* document.
ClassifyBySheetWitness ==
  /\ ev.op = "detectCategory"
  /\ ev.mimeType = "application/vnd.ms-excel.sheet.macroEnabled.12"
  /\ ev.category = "documents"

\* How often a record occurs in a sequence.
count(records, r) == Cardinality({k \in 1..Len(records) : records[k] = r})

\* The name contains the query as a substring when case is ignored.
containsIgnoringCase(name, query) ==
  \E k \in 1..(Len(name) - Len(query) + 1) :
    toLowerCase(SubSeq(name, k, k + Len(query) - 1)) = toLowerCase(query)

\* C15 - Filter: the result of filteredFiles holds exactly the records of
\* the view whose name contains the query, case ignored, and whose category
\* is the selected one (any category for "all"), each as often as the view
\* holds it, and the view itself is left as it was.
FilterKeepsExactlyMatches ==
  ev.op = "filteredFiles" =>
    /\ files = ev.view
    /\ \A k \in 1..Len(ev.result) : count(ev.view, ev.result[k]) > 0
    /\ \A r \in ViewRecords :
         count(ev.result, r) =
           IF /\ containsIgnoringCase(r.name, ev.search)
              /\ ev.activeCategory \in {"all", r.category}
           THEN count(ev.view, r) ELSE 0

\* The query "B" with the tab "images" kept "b" and "B" of a view of three
\* records and dropped the third.
FilterKeepsExactlyMatchesWitness ==
  /\ ev.op = "filteredFiles"
  /\ ev.search = "B"
  /\ ev.activeCategory = "images"
  /\ Len(ev.view) = 3
  /\ Len(ev.result) = 2
  /\ {ev.result[1].name, ev.result[2].name} = {"b", "B"}

\* a's key is at most b's key: numbers by value, strings as localeCompare
\* ranks them.
keyAtMost(a, b, sortBy) ==
  IF sortBy = "name" THEN localeCompare(a.name, b.name) <= 0
  ELSE IF sortBy = "size" THEN a.size <= b.size
  ELSE IF sortBy = "date" THEN a.lastModified <= b.lastModified
  ELSE localeCompare(a.category, b.category) <= 0

sameKey(a, b, sortBy) == keyAtMost(a, b, sortBy) /\ keyAtMost(b, a, sortBy)

namesOf(records) == [k \in 1..Len(records) |-> records[k].name]

\* C16 - Sort order and stability: the result of filteredFiles is ordered
\* non-decreasing by the chosen key for "asc" and non-increasing for "desc",
\* and in both orders records with equal keys are in the relative order they
\* have in the view; [b,a] of equal size sorted by size ascending stays
\* [b,a] and sorted by name ascending gives [a,b].
SortedAndStable ==
  ev.op = "filteredFiles" =>
    LET out == ev.result
    IN /\ \A i, j \in 1..Len(out) :
            i < j => IF ev.sortOrder = "asc"
                     THEN keyAtMost(out[i], out[j], ev.sortBy)
                     ELSE keyAtMost(out[j], out[i], ev.sortBy)
       /\ \E from \in [1..Len(out) -> 1..Len(ev.view)] :
            /\ \A k \in 1..Len(out) : out[k] = ev.view[from[k]]
            /\ \A i, j \in 1..Len(out) : i # j => from[i] # from[j]
            /\ \A i, j \in 1..Len(out) :
                 i < j /\ sameKey(out[i], out[j], ev.sortBy) => from[i] < from[j]
       /\ ( /\ namesOf(ev.view) = <<"b", "a">>
            /\ ev.search = ""
            /\ ev.activeCategory = "all"
            /\ ev.sortOrder = "asc" ) =>
              /\ ev.sortBy = "size" => namesOf(out) = <<"b", "a">>
              /\ ev.sortBy = "name" => namesOf(out) = <<"a", "b">>

\* A view [b, B, a] sorted by size descending gave [B, b, a]: the largest
\* first, b and a of equal size in their order of the view.
SortedAndStableWitness ==
  /\ ev.op = "filteredFiles"
  /\ ev.sortBy = "size"
  /\ ev.sortOrder = "desc"
  /\ namesOf(ev.view) = <<"b", "B", "a">>
  /\ namesOf(ev.result) = <<"B", "b", "a">>

RECURSIVE sumOver(_, _)
sumOver(f, n) == IF n = 0 THEN 0 ELSE f[n] + sumOver(f, n - 1)

\* The sum of size over the records of a view: the whole MiB and the bytes
\* beyond them are added up separately.
sizeTotal(view) ==
  LET whole == sumOver([k \in 1..Len(view) |-> view[k].size \div MiB], Len(view))
      part == sumOver([k \in 1..Len(view) |-> view[k].size % MiB], Len(view))
  IN [mib |-> whole + (part \div MiB), rem |-> part % MiB]

\* total * 1000 - tenths * 2^31, in units of 8 bytes, for tenths near
\* total * 1000 / 2^31; 2^30 elsewhere.
tenthsOff(total, tenths) ==
  LET d == total.mib * 125 - tenths * 256
  IN IF d \in -1000..1000 THEN d * MiB + total.rem * 125 ELSE 1024 * MiB

\* C17 as stated - the reported percent equals min(100, total/quota*100),
\* where total is the sum of size over the view and quota is 2*1024^3.
UsagePercentExact ==
  ev.op = "storageUsage" =>
    \E tenths \in 0..1000 :
      /\ ev.percent = toFixed1(tenths)
      /\ IF sizeTotal(files).mib >= QUOTA_MIB THEN tenths = 1000
         ELSE tenthsOff(sizeTotal(files), tenths) = 0

\* C17 amended - the reported total is the sum of size over the view,
\* formatted by formatFileSize, and the reported percent is
\* min(100, total/quota*100) with quota 2*1024^3, rounded to one decimal (a
\* tie going up) and written with that decimal; it is between 0.0 and 100.0
\* whatever the view holds.
UsagePercentRounded ==
  ev.op = "storageUsage" =>
    /\ ev.total = formatFileSize(sizeTotal(files))
    /\ \E tenths \in 0..1000 :
         /\ ev.percent = toFixed1(tenths)
         /\ IF sizeTotal(files).mib >= QUOTA_MIB THEN tenths = 1000
            ELSE /\ tenthsOff(sizeTotal(files), tenths) >= -(128 * MiB)
                 /\ tenthsOff(sizeTotal(files), tenths) < 128 * MiB

\* Seven files of 300 MiB, more than the quota, are reported as 100.0.
UsagePercentRoundedWitness ==
  /\ ev.op = "storageUsage"
  /\ Len(files) = 7
  /\ \A k \in 1..Len(files) : files[k].size = 300 * 1024 * 1024
  /\ ev.total = "2.05 GB"
  /\ ev.percent = "100.0"

\* C18 - Blob store get: for a key that holds no blob (never written, or
\* deleted) getFileBlob fails, and when it succeeds the key holds a blob and
\* the result is that blob.
GetFailsForMissingKey ==
  ev.op = "getFileBlob" =>
    /\ ev.key \notin DOMAIN blobs => ev.settled = "rejected"
    /\ ev.settled = "resolved" =>
         /\ ev.key \in DOMAIN blobs
         /\ ev.result = blobs[ev.key]

\* t holds records of s only, unchanged and in the order of s.
isSubsequence(t, s) ==
  \E from \in [1..Len(t) -> 1..Len(s)] :
    /\ \A k \in 1..Len(t) : t[k] = s[from[k]]
    /\ \A i, j \in 1..Len(t) : i < j => from[i] < from[j]

\* C19 - Records are immutable: a step that completes an upload leaves the
\* records of the metadata document as they are, in place, and adds its own
\* behind them; every other step (remove, login, logout, timers, failures)
\* leaves a document whose records are records of the old one, field by
\* field, in the same order.
RecordsImmutable ==
  [][IF ev'.op = "uploadSuccess"
     THEN /\ Len(meta') >= Len(meta)
          /\ SubSeq(meta', 1, Len(meta)) = meta
     ELSE isSubsequence(meta', meta)]_vars

\* The record stored at the start is still the first of the metadata
\* document, as it was, after another record was uploaded behind it and
\* removed again.
RecordsImmutableWitness ==
  /\ ev.op = "deleteDone"
  /\ ev.fileToDelete.id # StoredRecord.id
  /\ accepted >= 1
  /\ meta = <<StoredRecord>>

\* C20 - Credential set: a sign-up with an email of the credential list is
\* rejected and changes neither the list nor the session, and only such a
\* sign-up is rejected; the list never holds two users with one email; a
\* log-in is accepted only for an email and password that one stored user
\* has, and that user is the one logged in; the session record holds id,
\* email and name of a stored user and no password.
CredentialSet ==
  /\ [][ev'.op = "signUpRejected" =>
          /\ UNCHANGED <<users, session, user, logins>>
          /\ \E k \in 1..Len(users) : users[k].email = ev'.email]_vars
  /\ [][ev'.op = "signUp" =>
          /\ \A k \in 1..Len(users) : users[k].email # ev'.email
          /\ Len(users') = Len(users) + 1
          /\ SubSeq(users', 1, Len(users)) = users
          /\ users'[Len(users')].email = ev'.email]_vars
  /\ [](\A j, k \in 1..Len(users) : j # k => users[j].email # users[k].email)
  /\ [][ev'.op = "loginAccepted" =>
          \E k \in 1..Len(users) :
            /\ users[k].email = ev'.email
            /\ users[k].password = ev'.password
            /\ logins' = Append(logins, users[k])]_vars
  /\ [][ev'.op = "loginDenied" => UNCHANGED <<users, session, user, logins>>]_vars
  /\ [](session # NoSession =>
          /\ DOMAIN session = {"id", "email", "name"}
          /\ \E k \in 1..Len(users) :
               /\ session.id = users[k].id
               /\ session.email = users[k].email
               /\ session.name = users[k].name)

\* With two users stored and a log-in pending, a sign-up with the email of
\* the first user was rejected.
CredentialSetWitness ==
  /\ ev.op = "signUpRejected"
  /\ Len(users) = 2
  /\ ev.email = users[1].email
  /\ session = NoSession
  /\ logins # <<>>

\* C21 - getFileInsight never fails: the call settles as resolved with a
\* non-empty string; when the generation call throws (or the client cannot
\* be built) the result is the fixed fallback sentence; and the generation
\* call is made at most once, a pending call being followed by the result
\* without another request.
InsightNeverFails ==
  /\ [](ev.op = "getFileInsight" =>
          /\ ev.settled = "resolved"
          /\ Len(ev.result) > 0
          /\ ev.requests <= 1
          /\ ev.outcome = "threw" =>
               ev.result = "The bees are busy right now, but your file is safe and sound!")
  /\ [][ev.op = "insightPending" =>
          ev'.op = "getFileInsight" /\ ev'.requests = ev.requests]_vars

\* The one generation call threw and the fallback sentence was returned.
InsightNeverFailsWitness ==
  /\ ev.op = "getFileInsight"
  /\ ev.outcome = "threw"
  /\ ev.requests = 1
  /\ ev.result = INSIGHT_FALLBACK

\* C22 - Within one remove the blob deletion comes before the rewrite of
\* the metadata document: the step that suspends a remove at its await
\* leaves the document as it is, and a record leaves the document only in
\* the step in which the awaited deletion of the blob under its blobId has
\* resolved, that blob being gone from the store.
BlobDeletedBeforeIndexRewrite ==
  /\ [][(\E d \in 1..MaxDeletes : deletes[d] = Free /\ deletes'[d] # Free) =>
          meta' = meta]_vars
  /\ [][\A k \in 1..Len(meta) :
          count(meta', meta[k]) < count(meta, meta[k]) =>
            /\ ev'.op = "deleteDone"
            /\ ev'.fileToDelete.blobId = meta[k].blobId
            /\ meta[k].blobId \notin DOMAIN blobs']_vars

\* A remove of the record stored at the start has rewritten the document
\* after its blob was deleted.
BlobDeletedBeforeIndexRewriteWitness ==
  /\ ev.op = "deleteDone"
  /\ ev.fileToDelete = StoredRecord
  /\ count(meta, StoredRecord) = 0
  /\ StoredRecord.blobId \notin DOMAIN blobs

\* The step of upload call p in which its pending saveFileBlob resolves: the
\* call was suspended before the step and is further on or over after it,
\* and did not end in its catch block.
blobWritten(p) ==
  /\ uploads[p] # Free
  /\ uploads'[p] # uploads[p]
  /\ ev'.op # "uploadError"

\* C23 - Upload frame: the step that completes an upload stores the old
\* metadata document followed by the records of the accepted files of the
\* batch, one per file in input order, every old record in its place and
\* unchanged whoever owns it.  The document is written once, after all blobs
\* of the batch are written: a call collects a record only in the step that
\* writes the blob of that record, every such step but the last leaves the
\* document as it is, and the last one, which writes the blob of the last
\* accepted file, is the step that stores the document; no other step of an
\* upload writes it.
UploadFrame ==
  /\ [][ev'.op = "uploadSuccess" =>
          /\ meta' = meta \o ev'.created
          /\ sameFiles(ev'.created, SelectSeq(ev'.fileList, withinLimit))
          /\ \A k \in 1..Len(ev'.created) :
               /\ ev'.created[k].type \in
                    {SelectSeq(ev'.fileList, withinLimit)[k].type,
                     "application/octet-stream"}
               /\ ev'.created[k].ownerId = ev'.owner
          /\ \A k \in 1..Len(meta) : meta'[k] = meta[k]]_vars
  /\ [][ev'.op # "uploadSuccess" =>
          /\ Len(meta') <= Len(meta)
          /\ uploads' # uploads => meta' = meta]_vars
  /\ [][\A p \in DOMAIN uploads : blobWritten(p) =>
          LET u == uploads[p]
          IN /\ u.cur.blobId \in DOMAIN blobs'
             /\ blobs'[u.cur.blobId] = u.fileList[u.i].content
             /\ IF uploads'[p] = Free
                THEN /\ ev'.op = "uploadSuccess"
                     /\ ev'.created = Append(u.newFiles, u.cur)
                     /\ \A j \in (u.i + 1)..Len(u.fileList) :
                          ~withinLimit(u.fileList[j])
                ELSE /\ uploads'[p].newFiles = Append(u.newFiles, u.cur)
                     /\ meta' = meta]_vars
  /\ [][(ev'.op = "uploadSuccess" /\ ev'.created # <<>>) =>
          \E p \in DOMAIN uploads : blobWritten(p) /\ uploads'[p] = Free]_vars

\* User u2 uploaded two different files in one batch behind the record of
\* user u1, the larger file first; the blob of each is in the store.
UploadFrameWitness ==
  /\ ev.op = "uploadSuccess"
  /\ ev.owner = "u2"
  /\ Len(ev.created) = 2
  /\ ev.created[1].name = AtLimitFile.name
  /\ ev.created[2].name = StoredFile.name
  /\ meta = <<StoredRecord>> \o ev.created
  /\ \A k \in 1..2 : ev.created[k].blobId \in DOMAIN blobs
  /\ ev.created[1].blobId # ev.created[2].blobId

\* C24 - Remove frame: the step that completes a remove takes out of the
\* metadata document the records with the id of the remove and nothing
\* else, the records with another id staying as they are and in their
\* order whoever owns them, and takes out of the blob store the blob under
\* the blobId of the removed record and nothing else, every other blob
\* keeping its content; a remove that finds no record or whose blob
\* deletion fails changes neither.
RemoveFrame ==
  /\ [][ev'.op = "deleteDone" =>
          LET keep(r) == r.id # ev'.fileToDelete.id
          IN /\ meta' = SelectSeq(meta, keep)
             /\ DOMAIN blobs' = (DOMAIN blobs) \ {ev'.fileToDelete.blobId}
             /\ \A k \in DOMAIN blobs' : blobs'[k] = blobs[k]]_vars
  /\ [][ev'.op \in {"deleteRejected", "deleteNotFound"} =>
          UNCHANGED <<meta, blobs>>]_vars

\* A remove is done and a record of another owner, with another id, is
\* still in the document with its blob.
RemoveFrameWitness ==
  /\ ev.op = "deleteDone"
  /\ \E k \in 1..Len(meta) :
       /\ meta[k].ownerId # ev.fileToDelete.ownerId
       /\ meta[k].id # ev.fileToDelete.id
       /\ meta[k].blobId \in DOMAIN blobs

\* C25 - Every record of the metadata document has one of the categories
\* images, videos, documents, others, never "all", and its category is what
\* detectCategory gives for the type the record is stored with; this holds
\* too for a file that had no type and is stored as
\* application/octet-stream.
CategoryMatchesStoredType ==
  \A k \in 1..Len(meta) :
    /\ meta[k].category \in {"images", "videos", "documents", "others"}
    /\ meta[k].category = detectCategory(meta[k].type)

\* A file without a type was uploaded and is stored with the default type
\* and the category others.
CategoryMatchesStoredTypeWitness ==
  /\ ev.op = "uploadSuccess"
  /\ ev.fileList[1].type = ""
  /\ \E k \in 1..Len(meta) :
       /\ meta[k] = ev.created[1]
       /\ meta[k].type = "application/octet-stream"
       /\ meta[k].category = "others"

endsWith(s, p) == Len(s) >= Len(p) /\ SubSeq(s, Len(s) - Len(p) + 1, Len(s)) = p

\* 1024^i <= n for i in 0..3 and a byte count n > 0.
atLeastPower(n, i) ==
  CASE i = 0 -> TRUE
    [] i = 1 -> n.mib > 0 \/ n.rem >= 1024
    [] i = 2 -> n.mib >= 1
    [] i = 3 -> n.mib >= 1024

\* C26 - formatFileSize gives "0 Bytes" for 0 and, for every positive byte
\* count of a file size or a usage total, a text that ends in one of the
\* labels Bytes, KB, MB, GB, the label being the one at the largest index i
\* of the four with 1024^i <= bytes.
FormatLabelOneOfFour ==
  ev.op = "formatFileSize" =>
    IF ev.bytes = bytes(0) THEN ev.text = "0 Bytes"
    ELSE \E i \in 0..3 :
           /\ atLeastPower(ev.bytes, i)
           /\ \A j \in 0..3 : atLeastPower(ev.bytes, j) => j <= i
           /\ endsWith(ev.text, " " \o sizes[i + 1])

\* C27 - View consistency: whenever no upload and no remove is in flight,
\* the in-memory view holds exactly the records that list gives for the
\* current user from the metadata document (none when nobody is logged in).
ViewConsistency ==
  (inFlight(uploads) = {} /\ inFlight(deletes) = {}) =>
    files = (IF user = NoUser THEN <<>> ELSE list(user))

\* C28 - Whenever at least one upload call is in flight, started and
\* neither succeeded nor failed, uploadStatus is Uploading.
InFlightMeansUploading ==
  inFlight(uploads) # {} => uploadStatus = UPLOADING

\* C29 - No orphans and no dangling references under sequential use: when
\* uploads and confirmed removes run one at a time and all succeed, then
\* after each of them the keys of the blob store are exactly the blobIds of
\* the records of the metadata document.
SequentialKeysMatch ==
  quiet => DOMAIN blobs = {meta[k].blobId : k \in 1..Len(meta)}

\* Two files were uploaded and one record has been removed since; a record
\* and its blob remain.
SequentialKeysMatchWitness ==
  /\ quiet
  /\ ev.op = "deleteDone"
  /\ accepted = 2
  /\ meta # <<>>
  /\ DOMAIN blobs = {meta[k].blobId : k \in 1..Len(meta)}

\* C30 - An upload whose batch is empty or holds only oversized files ends
\* in status Success in the step of its call, without ever waiting for a
\* blob write, creates no record and no blob and leaves the metadata
\* document, the blob store and the in-memory view as they are; and after
\* it the status is eventually Idle, once the timed delay has elapsed.
NothingToUpload ==
  /\ [](\A p \in inFlight(uploads) : acceptedIn(uploads[p].fileList) > 0)
  /\ [][(ev'.op = "uploadSuccess" /\ acceptedIn(ev'.fileList) = 0) =>
          /\ uploadStatus' = SUCCESS
          /\ ev'.created = <<>>
          /\ timers' = timers + 1
          /\ UNCHANGED <<meta, blobs, files, uploads>>]_vars
  /\ (ev.op = "uploadSuccess" /\ acceptedIn(ev.fileList) = 0) ~> (uploadStatus = IDLE)

\* An upload of one oversized file has ended in Success beside the stored
\* record, which is still the whole document and the whole view.
NothingToUploadWitness ==
  /\ ev.op = "uploadSuccess"
  /\ Len(ev.fileList) = 1
  /\ acceptedIn(ev.fileList) = 0
  /\ uploadStatus = SUCCESS
  /\ meta = <<StoredRecord>>
  /\ files = <<StoredRecord>>
  /\ DOMAIN blobs = {StoredRecord.blobId}

====
